---- MODULE Spec2Model ----
(***************************************************************************)
(* Model of projeto-final-nexa.py: a Streamlit script that is re-executed  *)
(* from top to bottom on every UI interaction.  The session state          *)
(* (st.session_state) survives between runs; the widgets hand their        *)
(* current values to each run.  One action per block of the script; pc is  *)
(* the position of the running script ("idle" between two runs).           *)
(*                                                                         *)
(* Optional values: None is the empty tuple, Some(x) the one-element       *)
(* tuple.  Texts are tuples of strings so that a formatted text (an        *)
(* f-string) is the tuple of its pieces.  Non-ASCII letters of the source  *)
(* literals are written without their accents.                             *)
(***************************************************************************)
EXTENDS Integers, Sequences, FiniteSets, TLC

VARIABLES
    google_api_key,      \* st.session_state.google_api_key
    tavily_api_key,      \* st.session_state.tavily_api_key
    df,                  \* st.session_state.df
    agent,               \* st.session_state.agent
    messages,            \* st.session_state.messages
    uploaded_file_name,  \* st.session_state.uploaded_file_name
    arquivo,             \* value of the file_uploader widget
    regime_tributario,   \* value of the selectbox
    faturamento_anual,   \* value of the number_input
    cnae,                \* value of the text_input
    prompt,              \* value st.chat_input returns in this run
    pc,                  \* position of the script
    shown,               \* what this run has rendered so far
    kpi,                 \* the four metrics this run rendered
    chamada,             \* argument of agent.invoke in this run
    runNo,               \* history: number of the current run
    inicio,              \* history: session state when this run started
    carga,               \* history: outcome of this run's upload block
    resposta             \* history: outcome of this run's agent.invoke

vars == <<google_api_key, tavily_api_key, df, agent, messages,
          uploaded_file_name, arquivo, regime_tributario, faturamento_anual,
          cnae, prompt, pc, shown, kpi, chamada, runNo, inicio, carga,
          resposta>>

----------------------------------------------------------------------------
(* Bounds *)

\* Number of script runs explored in one session.
MaxRuns == 4

\* Largest number of rows of a dataset given to the dashboard.
MaxRows == 2

----------------------------------------------------------------------------
(* Values *)

None == <<>>
Some(x) == <<x>>

\* Column-name literals of the dashboard block.
ColNatureza == "NATUREZA DA OPERACAO"
ColValor == "VALOR TOTAL"
ColNumero == "NUMERO"
ColNome == "NOME DESTINATARIO"
ColUF == "UF DESTINATARIO"

ColunasKPI == {ColNatureza, ColValor, ColNumero, ColNome}
ColunasDashboard == ColunasKPI \cup {ColUF}

\* A row of invoice data; the operation nature is a tuple of characters.
Linha(nat, valor, numero, nome) ==
    [natureza |-> nat, valor |-> valor, numero |-> numero, nome |-> nome]

\* A dataframe: its column labels and its rows.
Tabela(cols, rows) == [cols |-> cols, rows |-> rows]

Venda == <<"V", "E", "N", "D", "A">>
Revenda == <<"R", "e", "v", "e", "n", "d", "a">>
Vend == <<"V", "E", "N", "D">>
Compra == <<"C", "O", "M", "P", "R", "A">>

\* The two datasets the uploaded files of the session model hold.
Tabela1 ==
    Tabela(ColunasDashboard,
           <<Linha(Venda, 10, 1, "A"), Linha(Compra, 25, 2, "B")>>)
Tabela2 ==
    Tabela(ColunasDashboard \ {ColNumero}, <<Linha(Revenda, 25, 1, "B")>>)

Dados == [t1 |-> Tabela1, t2 |-> Tabela2]

\* An uploaded file: its name (stem, extension) and its bytes (the format
\* they are written in and the table they encode).
Nomes == {<<"a", ".csv">>, <<"b", ".xlsx">>}
Conteudos == {"csv", "xlsx"} \X {"t1", "t2"}
Arquivos == [name : Nomes, bytes : Conteudos]

Perfis == {<<"Simples Nacional", 0, "">>,
           <<"Lucro Presumido", 1000, "4781-4/00">>}
Prompts == {"q1", "q2"}
Saidas == {"r1"}
Erros == {"e1"}

Saudacao ==
    <<"Ola! Sou seu assistente fiscal. Analise o dashboard e me faca uma pergunta.">>

\* A transcript entry; run is history (the run that appended it).
Msg(role, content) == [role |-> role, content |-> content, run |-> runNo]

Sessao == [agent |-> agent, messages |-> messages, df |-> df,
           uploaded_file_name |-> uploaded_file_name]

----------------------------------------------------------------------------
(* Pure functions *)

Minusculas == <<"a", "b", "c", "d", "e", "f", "g", "h", "i", "j", "k", "l",
                "m", "n", "o", "p", "q", "r", "s", "t", "u", "v", "w", "x",
                "y", "z">>
Maiusculas == <<"A", "B", "C", "D", "E", "F", "G", "H", "I", "J", "K", "L",
                "M", "N", "O", "P", "Q", "R", "S", "T", "U", "V", "W", "X",
                "Y", "Z">>

\* Case folding of one character, as case=False compares characters.
Fold(c) ==
    IF \E i \in 1..Len(Minusculas) : Minusculas[i] = c
    THEN Maiusculas[CHOOSE i \in 1..Len(Minusculas) : Minusculas[i] = c]
    ELSE c

\* s.str.contains(pat, case=False) for a pattern without metacharacters.
Contains(s, pat) ==
    \E i \in 0..(Len(s) - Len(pat)) :
        \A j \in 1..Len(pat) : Fold(s[i + j]) = Fold(pat[j])

\* arquivo.name.endswith('.csv')
EndsWithCsv(name) == name[2] = ".csv"

\* Whether pd.read_csv / pd.read_excel, chosen by the extension of the name,
\* reads the bytes of the file without raising.
Parses(f) ==
    IF EndsWithCsv(f.name) THEN f.bytes[1] = "csv" ELSE f.bytes[1] = "xlsx"

\* The dataframe the reader returns.
ReadFile(f) == Dados[f.bytes[2]]

\* Variant of IsVenda: the filter without case=False.
IsVenda_CaseSensitive(r) ==
    \E i \in 0..(Len(r.natureza) - Len(Venda)) :
        \A j \in 1..Len(Venda) : r.natureza[i + j] = Venda[j]

IsVenda(r) == Contains(r.natureza, Venda)

\* df[df['NATUREZA DA OPERACAO'].str.contains("VENDA", case=False)]
DfVendas(rows) == SelectSeq(rows, IsVenda)

RECURSIVE SumValor(_)
\* Series.sum() over the 'VALOR TOTAL' column.
SumValor(rows) ==
    IF rows = <<>> THEN 0 ELSE Head(rows).valor + SumValor(Tail(rows))

RECURSIVE Unique(_)
\* Series.unique(): the values in order of first appearance.
Unique(vals) ==
    IF vals = <<>> THEN <<>>
    ELSE LET rest == Unique(SubSeq(vals, 1, Len(vals) - 1))
             x == vals[Len(vals)]
         IN IF \E i \in 1..Len(rest) : rest[i] = x THEN rest
            ELSE Append(rest, x)

Coluna(rows, campo) == [i \in 1..Len(rows) |-> rows[i][campo]]

\* faturamento_total / num_notas if num_notas > 0 else 0, kept as an exact
\* quotient <<numerator, denominator>>.
TicketMedio(faturamento_total, num_notas) ==
    IF num_notas > 0 THEN <<faturamento_total, num_notas>> ELSE <<0, 1>>

\* The four KPIs of the dashboard.
KPIs(rows) ==
    LET df_vendas == DfVendas(rows)
        faturamento_total == SumValor(df_vendas)
        num_notas == Len(Unique(Coluna(df_vendas, "numero")))
        ticket_medio == TicketMedio(faturamento_total, num_notas)
        num_clientes == Len(Unique(Coluna(df_vendas, "nome")))
    IN [faturamento_total |-> faturamento_total, num_notas |-> num_notas,
        ticket_medio |-> ticket_medio, num_clientes |-> num_clientes]

\* The f-string sent to the agent.
PromptAumentado(p) ==
    <<"CONTEXTO DA EMPRESA:", "- Regime: ", regime_tributario,
      "- Faturamento Anual: R$ ", faturamento_anual, "- CNAE: ", cnae,
      "PERGUNTA: ", p>>

\* [{"role": m["role"], "content": m["content"]} for m in messages]
ChatHistory(msgs) ==
    [i \in 1..Len(msgs) |-> [role |-> msgs[i].role, content |-> msgs[i].content]]

\* f"Ocorreu um erro: {e}"
ErrorMessage(e) == <<"Ocorreu um erro: ", e>>

----------------------------------------------------------------------------
(* The session and the script *)

\* Lines 33-38 on a fresh session, before the first run renders anything.
Init ==
    /\ google_api_key = None
    /\ tavily_api_key = None
    /\ df = None
    /\ agent = None
    /\ messages = <<>>
    /\ uploaded_file_name = None
    /\ arquivo = None
    /\ regime_tributario = "Simples Nacional"
    /\ faturamento_anual = 0
    /\ cnae = ""
    /\ prompt = None
    /\ pc = "idle"
    /\ shown = {}
    /\ kpi = None
    /\ chamada = None
    /\ runNo = 0
    /\ inicio = [agent |-> None, messages |-> <<>>, df |-> None,
                 uploaded_file_name |-> None]
    /\ carga = "none"
    /\ resposta = "none"

\* The widget values a run can start with.  The first run (page load) sees
\* every widget at its default.  A later run is started by the user's
\* interaction.  The framework hands the script the current value of every
\* widget, and merges the interactions that arrive before the run starts
\* into one run, so a run may see a changed file and a submitted chat text
\* together.  An empty text input is None.  st.chat_input returns a text
\* only if the chat input was on the page, that is, if the previous run
\* rendered it.
Entradas ==
    IF runNo = 0
    THEN {[google |-> None, tavily |-> None,
           perfil |-> <<"Simples Nacional", 0, "">>, arquivo |-> None,
           prompt |-> None]}
    ELSE [google : {None, Some("gk")}, tavily : {None, Some("tk")},
          perfil : Perfis,
          arquivo : {None} \cup {Some(f) : f \in Arquivos},
          prompt : IF "chat_input" \in shown
                   THEN {None} \cup {Some(q) : q \in Prompts}
                   ELSE {None}]

\* A run starts: lines 27-68, the page header and the sidebar widgets.
Rerun ==
    /\ pc = "idle"
    /\ runNo < MaxRuns
    /\ \E e \in Entradas :
        /\ google_api_key' = IF e.google # None THEN e.google ELSE google_api_key
        /\ tavily_api_key' = IF e.tavily # None THEN e.tavily ELSE tavily_api_key
        /\ regime_tributario' = e.perfil[1]
        /\ faturamento_anual' = e.perfil[2]
        /\ cnae' = e.perfil[3]
        /\ arquivo' = e.arquivo
        /\ prompt' = e.prompt
    /\ pc' = "upload"
    /\ shown' = (IF google_api_key' # None THEN {"api_google"} ELSE {})
                 \cup (IF tavily_api_key' # None THEN {"api_tavily"} ELSE {})
    /\ kpi' = None
    /\ chamada' = None
    /\ runNo' = runNo + 1
    /\ inicio' = Sessao
    /\ carga' = "none"
    /\ resposta' = "none"
    /\ UNCHANGED <<df, agent, messages, uploaded_file_name>>

\* Line 69: the uploader holds a file whose name is not the recorded one.
NovoArquivo ==
    /\ arquivo # None
    /\ uploaded_file_name # Some(arquivo[1].name)

\* Line 69 false: nothing is parsed.
LoadSkip ==
    /\ pc = "upload"
    /\ ~NovoArquivo
    /\ carga' = "skip"
    /\ pc' = "main"
    /\ UNCHANGED <<google_api_key, tavily_api_key, df, agent, messages,
                   uploaded_file_name, arquivo, regime_tributario,
                   faturamento_anual, cnae, prompt, shown, kpi, chamada,
                   runNo, inicio, resposta>>

\* Variant of LoadOk: lines 77-78 left out.
LoadOk_KeepsConversation ==
    /\ pc = "upload"
    /\ NovoArquivo
    /\ Parses(arquivo[1])
    /\ df' = Some(ReadFile(arquivo[1]))
    /\ uploaded_file_name' = Some(arquivo[1].name)
    /\ shown' = shown \cup {"carregado"}
    /\ carga' = "ok"
    /\ pc' = "main"
    /\ UNCHANGED <<google_api_key, tavily_api_key, agent, messages, arquivo,
                   regime_tributario, faturamento_anual, cnae, prompt, kpi,
                   chamada, runNo, inicio, resposta>>

\* Lines 70-78: the file is read and the conversation is reset.
LoadOk ==
    /\ pc = "upload"
    /\ NovoArquivo
    /\ Parses(arquivo[1])
    /\ df' = Some(ReadFile(arquivo[1]))
    /\ uploaded_file_name' = Some(arquivo[1].name)
    /\ shown' = shown \cup {"carregado"}
    /\ agent' = None
    /\ messages' = <<>>
    /\ carga' = "ok"
    /\ pc' = "main"
    /\ UNCHANGED <<google_api_key, tavily_api_key, arquivo, regime_tributario,
                   faturamento_anual, cnae, prompt, kpi, chamada, runNo,
                   inicio, resposta>>

\* Variant of LoadFail: the handler also forgets the recorded file name.
LoadFail_ClearsName ==
    /\ pc = "upload"
    /\ NovoArquivo
    /\ ~Parses(arquivo[1])
    /\ shown' = shown \cup {"erro_arquivo"}
    /\ df' = None
    /\ uploaded_file_name' = None
    /\ carga' = "fail"
    /\ pc' = "main"
    /\ UNCHANGED <<google_api_key, tavily_api_key, agent, messages, arquivo,
                   regime_tributario, faturamento_anual, cnae, prompt, kpi,
                   chamada, runNo, inicio, resposta>>

\* Lines 70-74 raise, lines 79-81 handle.
LoadFail ==
    /\ pc = "upload"
    /\ NovoArquivo
    /\ ~Parses(arquivo[1])
    /\ shown' = shown \cup {"erro_arquivo"}
    /\ df' = None
    /\ carga' = "fail"
    /\ pc' = "main"
    /\ UNCHANGED <<google_api_key, tavily_api_key, agent, messages,
                   uploaded_file_name, arquivo, regime_tributario,
                   faturamento_anual, cnae, prompt, kpi, chamada, runNo,
                   inicio, resposta>>

\* Line 84.
Gate == google_api_key # None /\ tavily_api_key # None /\ df # None

\* Line 84 false: no dashboard, no chat header.
DashboardSkip ==
    /\ pc = "main"
    /\ ~Gate
    /\ pc' = "agent"
    /\ UNCHANGED <<google_api_key, tavily_api_key, df, agent, messages,
                   uploaded_file_name, arquivo, regime_tributario,
                   faturamento_anual, cnae, prompt, shown, kpi, chamada,
                   runNo, inicio, carga, resposta>>

\* Lines 86-119 without an exception: metrics and both charts.
DashboardOk ==
    /\ pc = "main"
    /\ Gate
    /\ ColunasDashboard \subseteq df[1].cols
    /\ kpi' = Some(KPIs(df[1].rows))
    /\ shown' = shown \cup {"metrics", "charts", "chat_header"}
    /\ pc' = "agent"
    /\ UNCHANGED <<google_api_key, tavily_api_key, df, agent, messages,
                   uploaded_file_name, arquivo, regime_tributario,
                   faturamento_anual, cnae, prompt, chamada, runNo, inicio,
                   carga, resposta>>

\* Lines 86-119 when a column is missing: the KeyError is caught at line
\* 116; the metrics were rendered if the four KPI columns exist.
DashboardWarn ==
    /\ pc = "main"
    /\ Gate
    /\ ~(ColunasDashboard \subseteq df[1].cols)
    /\ IF ColunasKPI \subseteq df[1].cols
       THEN /\ kpi' = Some(KPIs(df[1].rows))
            /\ shown' = shown \cup {"metrics", "warning", "chat_header"}
       ELSE /\ kpi' = kpi
            /\ shown' = shown \cup {"warning", "chat_header"}
    /\ pc' = "agent"
    /\ UNCHANGED <<google_api_key, tavily_api_key, df, agent, messages,
                   uploaded_file_name, arquivo, regime_tributario,
                   faturamento_anual, cnae, prompt, chamada, runNo, inicio,
                   carga, resposta>>

\* Lines 122-178: no agent is stored, one is built over the current df.
\* Whether the constructors raise depends on the process environment
\* (os.environ is shared by all sessions), so both outcomes are possible.
BuildOk ==
    /\ pc = "agent"
    /\ agent = None
    /\ agent' = Some([df |-> df, run |-> runNo])
    /\ shown' = shown \cup {"inicializando", "pronto"}
    /\ pc' = "chat"
    /\ UNCHANGED <<google_api_key, tavily_api_key, df, messages,
                   uploaded_file_name, arquivo, regime_tributario,
                   faturamento_anual, cnae, prompt, kpi, chamada, runNo,
                   inicio, carga, resposta>>

\* Lines 122-131 raise, lines 179-181 handle and st.stop() ends the run.
BuildFail ==
    /\ pc = "agent"
    /\ agent = None
    /\ shown' = shown \cup {"inicializando", "erro_agente"}
    /\ pc' = "idle"
    /\ UNCHANGED <<google_api_key, tavily_api_key, df, agent, messages,
                   uploaded_file_name, arquivo, regime_tributario,
                   faturamento_anual, cnae, prompt, kpi, chamada, runNo,
                   inicio, carga, resposta>>

\* Lines 216-217: the else of line 122, taken when an agent is stored.
Notice ==
    /\ pc = "agent"
    /\ agent # None
    /\ shown' = shown \cup {"notice"}
    /\ pc' = "idle"
    /\ UNCHANGED <<google_api_key, tavily_api_key, df, agent, messages,
                   uploaded_file_name, arquivo, regime_tributario,
                   faturamento_anual, cnae, prompt, kpi, chamada, runNo,
                   inicio, carga, resposta>>

\* Variant of WithGreeting: no greeting is stored.
WithGreeting_Never(msgs) == msgs

\* Lines 184-185.
WithGreeting(msgs) ==
    IF msgs = <<>> THEN <<Msg("assistant", Saudacao)>> ELSE msgs

\* Lines 184-191 when st.chat_input returns nothing: the run ends.
ChatIdle ==
    /\ pc = "chat"
    /\ prompt = None
    /\ messages' = WithGreeting(messages)
    /\ shown' = shown \cup {"history", "chat_input"}
    /\ pc' = "idle"
    /\ UNCHANGED <<google_api_key, tavily_api_key, df, agent,
                   uploaded_file_name, arquivo, regime_tributario,
                   faturamento_anual, cnae, prompt, kpi, chamada, runNo,
                   inicio, carga, resposta>>

\* Lines 184-194 when st.chat_input returns a text.
ChatSubmit ==
    /\ pc = "chat"
    /\ prompt # None
    /\ messages' = Append(WithGreeting(messages), Msg("user", <<prompt[1]>>))
    /\ shown' = shown \cup {"history", "chat_input"}
    /\ pc' = "invoke"
    /\ UNCHANGED <<google_api_key, tavily_api_key, df, agent,
                   uploaded_file_name, arquivo, regime_tributario,
                   faturamento_anual, cnae, prompt, kpi, chamada, runNo,
                   inicio, carga, resposta>>

\* Lines 199-208: what agent.invoke is called with.
Chamada ==
    [input |-> PromptAumentado(prompt[1]),
     chat_history |-> ChatHistory(messages)]

\* Variant of InvokeOk: line 211 assigns the transcript instead of appending.
InvokeOk_Assigns ==
    /\ pc = "invoke"
    /\ chamada' = Some(Chamada)
    /\ \E out \in Saidas : messages' = <<Msg("assistant", <<out>>)>>
    /\ resposta' = "ok"
    /\ pc' = "idle"
    /\ UNCHANGED <<google_api_key, tavily_api_key, df, agent,
                   uploaded_file_name, arquivo, regime_tributario,
                   faturamento_anual, cnae, prompt, shown, kpi, runNo,
                   inicio, carga>>

\* Lines 198-211: the agent answers.
InvokeOk ==
    /\ pc = "invoke"
    /\ chamada' = Some(Chamada)
    /\ \E out \in Saidas :
        messages' = Append(messages, Msg("assistant", <<out>>))
    /\ resposta' = "ok"
    /\ pc' = "idle"
    /\ UNCHANGED <<google_api_key, tavily_api_key, df, agent,
                   uploaded_file_name, arquivo, regime_tributario,
                   faturamento_anual, cnae, prompt, shown, kpi, runNo,
                   inicio, carga>>

\* Variant of InvokeErr: the handler shows the error and stores nothing.
InvokeErr_Silent ==
    /\ pc = "invoke"
    /\ chamada' = Some(Chamada)
    /\ resposta' = "err"
    /\ pc' = "idle"
    /\ UNCHANGED <<google_api_key, tavily_api_key, df, agent, messages,
                   uploaded_file_name, arquivo, regime_tributario,
                   faturamento_anual, cnae, prompt, shown, kpi, runNo,
                   inicio, carga>>

\* Line 208 raises, lines 212-215 handle.
InvokeErr ==
    /\ pc = "invoke"
    /\ chamada' = Some(Chamada)
    /\ \E e \in Erros :
        messages' = Append(messages, Msg("assistant", ErrorMessage(e)))
    /\ resposta' = "err"
    /\ pc' = "idle"
    /\ UNCHANGED <<google_api_key, tavily_api_key, df, agent,
                   uploaded_file_name, arquivo, regime_tributario,
                   faturamento_anual, cnae, prompt, shown, kpi, runNo,
                   inicio, carga>>

Next ==
    \/ Rerun
    \/ LoadSkip
    \/ LoadOk
    \/ LoadFail
    \/ DashboardSkip
    \/ DashboardOk
    \/ DashboardWarn
    \/ BuildOk
    \/ BuildFail
    \/ Notice
    \/ ChatIdle
    \/ ChatSubmit
    \/ InvokeOk
    \/ InvokeErr

Spec == Init /\ [][Next]_vars

----------------------------------------------------------------------------
(* The dashboard alone, over every dataset within the bounds *)

Naturezas == {Venda, Revenda, Vend, Compra}

Linhas ==
    {Linha(n, v, k, c) : n \in Naturezas, v \in {10, 25}, k \in {1, 2},
                         c \in {"A", "B"}}

RECURSIVE SeqsUpTo(_, _)
SeqsUpTo(S, n) ==
    IF n = 0 THEN {<<>>}
    ELSE LET shorter == SeqsUpTo(S, n - 1)
         IN shorter \cup {Append(q, x) : q \in shorter, x \in S}

Tabelas ==
    {Tabela(cols, rows) :
        cols \in {ColunasDashboard, ColunasDashboard \ {ColUF},
                  ColunasDashboard \ {ColNumero}},
        rows \in SeqsUpTo(Linhas, MaxRows)}

\* The script at line 84 of a run, for any loaded dataset.
InitKPI ==
    /\ google_api_key \in {None, Some("gk")}
    /\ tavily_api_key = Some("tk")
    /\ df \in {None} \cup {Some(t) : t \in Tabelas}
    /\ agent = None
    /\ messages = <<>>
    /\ uploaded_file_name = IF df = None THEN None ELSE Some(<<"a", ".csv">>)
    /\ arquivo = None
    /\ regime_tributario = "Simples Nacional"
    /\ faturamento_anual = 0
    /\ cnae = ""
    /\ prompt = None
    /\ pc = "main"
    /\ shown = {}
    /\ kpi = None
    /\ chamada = None
    /\ runNo = 1
    /\ inicio = Sessao
    /\ carga = "skip"
    /\ resposta = "none"

NextKPI == DashboardSkip \/ DashboardOk \/ DashboardWarn

SpecKPI == InitKPI /\ [][NextKPI]_vars

----------------------------------------------------------------------------
(* Properties *)

FimDeRun == pc = "idle" /\ runNo > 0

IsPrefix(a, b) == Len(a) <= Len(b) /\ SubSeq(b, 1, Len(a)) = a

\* C1: in a run that starts with a stored agent and receives a chat input,
\* the text is appended to the transcript as a user entry, the agent is
\* invoked with the text and the company profile, and an assistant entry
\* follows the user entry.
C1_ChatInputProcessed ==
    (FimDeRun /\ inicio.agent # None /\ prompt # None) =>
        /\ chamada # None
        /\ chamada[1].input = PromptAumentado(prompt[1])
        /\ \E i \in 1..(Len(messages) - 1) :
              /\ messages[i] = Msg("user", <<prompt[1]>>)
              /\ messages[i + 1].role = "assistant"
              /\ messages[i + 1].run = runNo

C3_DatasetIsUploadedFile ==
    (FimDeRun /\ arquivo # None /\ Parses(arquivo[1])) =>
        df = Some(ReadFile(arquivo[1]))

\* C4: a successful load empties the transcript and discards the agent in
\* the load step itself, and at the end of that run every message and the
\* stored agent, if any, were created in that run, after the load.
C4_UploadResetsConversation ==
    /\ (pc = "main" /\ carga = "ok") => (agent = None /\ messages = <<>>)
    /\ (FimDeRun /\ carga = "ok") =>
          /\ \A i \in 1..Len(messages) : messages[i].run = runNo
          /\ agent # None => agent[1].run = runNo

\* C4 witness: the end of a run whose load replaced a session that had an agent and a
\* transcript, and that built a new agent.
C4_Witness ==
    /\ FimDeRun
    /\ carga = "ok"
    /\ inicio.agent # None
    /\ inicio.messages # <<>>
    /\ agent # None
    /\ messages # <<>>

\* Independent statement of the row filter: the folded text holds V E N D A
\* at some position.
MatchingRows(rows) ==
    {i \in 1..Len(rows) :
        \E a \in 1..Len(rows[i].natureza) :
            /\ a + 4 <= Len(rows[i].natureza)
            /\ rows[i].natureza[a] \in {"V", "v"}
            /\ rows[i].natureza[a + 1] \in {"E", "e"}
            /\ rows[i].natureza[a + 2] \in {"N", "n"}
            /\ rows[i].natureza[a + 3] \in {"D", "d"}
            /\ rows[i].natureza[a + 4] \in {"A", "a"}}

RECURSIVE SumOver(_, _)
SumOver(rows, I) ==
    IF I = {} THEN 0
    ELSE LET i == CHOOSE x \in I : TRUE
         IN rows[i].valor + SumOver(rows, I \ {i})

C6_TranscriptAppendOnly ==
    [][~(pc = "upload" /\ carga' = "ok") => IsPrefix(messages, messages')]_vars

\* C6 witness: a full chat turn answered by the agent.
C6_Witness ==
    /\ FimDeRun
    /\ resposta = "ok"
    /\ Len(messages) = 3
    /\ messages[2].role = "user"

\* C7 as stated: an agent invocation that raises leaves the transcript, df,
\* agent and uploaded_file_name as they were before the invocation.
C7_InvokeFailureKeepsState ==
    [][(pc = "invoke" /\ resposta' = "err") =>
          /\ messages' = messages
          /\ df' = df
          /\ agent' = agent
          /\ uploaded_file_name' = uploaded_file_name]_vars

\* C7 amended: an agent invocation that raises appends exactly one
\* assistant entry holding the error text after the user message, and
\* leaves df, agent and uploaded_file_name as they were.
C7_InvokeFailureAppendsError ==
    [][(pc = "invoke" /\ resposta' = "err") =>
          /\ messages[Len(messages)].role = "user"
          /\ \E e \in Erros :
                messages' = Append(messages, Msg("assistant", ErrorMessage(e)))
          /\ df' = df
          /\ agent' = agent
          /\ uploaded_file_name' = uploaded_file_name]_vars

\* C7 witness: a chat turn whose invocation raised.
C7_Witness ==
    /\ pc = "idle"
    /\ resposta = "err"
    /\ chamada # None
    /\ messages[Len(messages)].content \in {ErrorMessage(e) : e \in Erros}

\* C8: in a run with a key unset or no dataset, no agent construction is
\* attempted, no chat input is offered and the notice is shown; with both
\* keys and a dataset the notice is not shown.
C8_GatedOnConfiguration ==
    FimDeRun =>
        IF Gate
        THEN "notice" \notin shown
        ELSE /\ "inicializando" \notin shown
             /\ "chat_input" \notin shown
             /\ "notice" \in shown

\* C9: at the end of a run, a stored agent is bound to the session's df.
C9_AgentBoundToSessionDf ==
    (FimDeRun /\ agent # None) => agent[1].df = df

\* C10: the transcript is empty or starts with the greeting, its roles
\* alternate assistant, user, assistant, ..., and at the end of a run every
\* user message is followed by one assistant message of the same run (the
\* reply or the error text), so the transcript does not end with a user
\* message.
C10_TranscriptShape ==
    /\ messages # <<>> =>
          /\ messages[1].role = "assistant"
          /\ messages[1].content = Saudacao
    /\ \A i \in 1..Len(messages) :
          messages[i].role = IF i % 2 = 1 THEN "assistant" ELSE "user"
    /\ pc = "idle" =>
          \A i \in 1..Len(messages) :
              messages[i].role = "user" =>
                  /\ i < Len(messages)
                  /\ messages[i + 1].role = "assistant"
                  /\ messages[i + 1].run = messages[i].run
                  /\ messages[i + 1].content \in
                        {<<o>> : o \in Saidas} \cup {ErrorMessage(e) : e \in Erros}

\* C10 witness: a completed run that took a chat turn and stored three entries.
C10_Witness ==
    /\ pc = "idle"
    /\ Len(messages) = 3
    /\ messages[2].role = "user"
    /\ messages[2].run = runNo
    /\ messages[3].role = "assistant"

====
